---- MODULE Spec2Model ----
(***************************************************************************)
(* A model of server.py, the Python worker of PyRun.jl: the Reference      *)
(* Table (get_ref / del_ref), the Scope Store (get_scope), the decoder     *)
(* (get_locals / get_local), the formatter chain behind jl.ret, the run    *)
(* task (do_run), the delayed echo (sleep_echo) and the dispatch loop      *)
(* (serve), all scheduled by one asyncio event loop.                       *)
(*                                                                         *)
(* The event loop is modelled as asyncio runs it: a FIFO queue of ready    *)
(* coroutines, each running from one suspension point to the next with     *)
(* nothing in between; readline() does not suspend when a line is already  *)
(* buffered, drain() suspends only when the transport is paused.           *)
(***************************************************************************)
EXTENDS Integers, Sequences, FiniteSets, TLC

\* The number of requests the clients send in one behaviour: of a small menu
\* of requests, and of a wide one.
MaxReqs == 3
MaxWide == 2

\* The client connections.
Conns == {1, 2}

\* The delay, in ticks of model time, of a sleep-echo and of a blocking guest call.
Delay == 2

-----------------------------------------------------------------------------
(* str(), int() and repr() on the values the program converts *)

Digit(d) ==
  CASE d = 0 -> "0" [] d = 1 -> "1" [] d = 2 -> "2" [] d = 3 -> "3" [] d = 4 -> "4"
    [] d = 5 -> "5" [] d = 6 -> "6" [] d = 7 -> "7" [] d = 8 -> "8" [] d = 9 -> "9"

RECURSIVE NatStr(_)
NatStr(n) == IF n < 10 THEN Digit(n) ELSE NatStr(n \div 10) \o Digit(n % 10)

\* str(n) of a Python int: its decimal digits, with a leading minus sign.
Str(n) == IF n < 0 THEN "-" \o NatStr(-n) ELSE NatStr(n)

\* repr(s) of a Python str without quotes inside, as KeyError shows its key.
Repr(s) == "'" \o s \o "'"

Abs(n) == IF n < 0 THEN -n ELSE n

-----------------------------------------------------------------------------
(* Python runtime values and JSON wire values *)

PyNone == [ty |-> "NoneType"]
PyBool(b) == [ty |-> "bool", v |-> b]
PyInt(n) == [ty |-> "int", v |-> n]
PyStr(s) == [ty |-> "str", v |-> s]
\* An instance of a class no formatter encodes (object()).
PyObj(o) == [ty |-> "object", v |-> o]
\* A module object; the helper module jl is one.
PyModule(n) == [ty |-> "module", v |-> n]
\* A tuple and a list of values.
PyTuple(s) == [ty |-> "tuple", v |-> s]
PyList(s) == [ty |-> "list", cyc |-> FALSE, v |-> s]
\* The list that is its own only element: l = []; l.append(l).
PyCycle == [ty |-> "list", cyc |-> TRUE, v |-> <<>>]

JNull == [j |-> "null"]
JBool(b) == [j |-> "bool", v |-> b]
JNum(n) == [j |-> "number", v |-> n]
JStr(s) == [j |-> "string", v |-> s]
\* The JSON object {"t": t, "v": v}.
JNode(t, v) == [j |-> "object", t |-> t, v |-> v]

\* The name of the server module: it is run as a script.
ModName == "__main__"

-----------------------------------------------------------------------------
(* Reference Table *)

\* d[k] = v on a dict d.
Bind(d, k, v) == [x \in DOMAIN d \cup {k} |-> IF x = k THEN v ELSE d[x]]

\* A get_ref that forgets to advance the counter.
GetRefNoAdvance(rid, rf, value) ==
  [refid |-> rid, handle |-> Str(rid), refs |-> Bind(rf, Str(rid), value)]

\* get_ref(value): advance refid, bind str(refid) to value, return the handle.
GetRef(rid, rf, value) ==
  [refid |-> rid + 1, handle |-> Str(rid + 1), refs |-> Bind(rf, Str(rid + 1), value)]

\* A del_ref written refs.pop(r): KeyError on a handle that is not in the table.
DelRefStrict(rf, r) ==
  IF r \in DOMAIN rf
  THEN [exc |-> "", refs |-> [h \in DOMAIN rf \ {r} |-> rf[h]]]
  ELSE [exc |-> "KeyError", refs |-> rf]

\* A del_ref written refs.clear(): it releases every handle.
DelRefAll(rf, r) == [exc |-> "", refs |-> <<>>]

\* del_ref(r): refs.pop(r, None).
DelRef(rf, r) == [exc |-> "", refs |-> [h \in DOMAIN rf \ {r} |-> rf[h]]]

-----------------------------------------------------------------------------
(* Scope Store *)

StartsWith(s, p) == Len(s) >= Len(p) /\ SubSeq(s, 1, Len(p)) = p

\* type(sys)(name): a new module; its namespace binds __name__.
NewModule(name) == ("__name__" :> PyStr(name))

\* The path a private scope name is translated to.
ScopePath(name) == ModName \o ".scopes." \o SubSeq(name, 2, Len(name))

\* sys.modules[n].__dict__ of an n that is in sys.modules, or KeyError.
Lookup(mods, n) ==
  IF n \in DOMAIN mods THEN [exc |-> "", key |-> n, mods |-> mods]
  ELSE [exc |-> "KeyError", key |-> n, mods |-> mods]

\* if name not in sys.modules: sys.modules[name] = type(sys)(name)
Ensure(mods, n) == IF n \in DOMAIN mods THEN mods ELSE Bind(mods, n, NewModule(n))

\* A get_scope that makes a new module on every access to a private name.
GetScopeFresh(mods, name) ==
  IF StartsWith(name, "@")
  THEN Lookup(Bind(mods, ScopePath(name), NewModule(ScopePath(name))), ScopePath(name))
  ELSE Lookup(mods, name)

\* A get_scope that maps every private name to one module.
GetScopeShared(mods, name) ==
  IF StartsWith(name, "@")
  THEN Lookup(Ensure(mods, ModName \o ".scopes."), ModName \o ".scopes.")
  ELSE Lookup(mods, name)

\* get_scope(name): the namespace is sys.modules[key].__dict__; mods is sys.modules.
\* A private name is translated and its module made on first access; any other
\* name is looked up in sys.modules as it is, and KeyError is raised if absent.
GetScope(mods, name) ==
  IF StartsWith(name, "@")
  THEN Lookup(Ensure(mods, ScopePath(name)), ScopePath(name))
  ELSE Lookup(mods, name)

-----------------------------------------------------------------------------
(* int(s) on a string *)

DigitVal(ch) ==
  CASE ch = "0" -> 0 [] ch = "1" -> 1 [] ch = "2" -> 2 [] ch = "3" -> 3 [] ch = "4" -> 4
    [] ch = "5" -> 5 [] ch = "6" -> 6 [] ch = "7" -> 7 [] ch = "8" -> 8 [] ch = "9" -> 9
    [] OTHER -> -1

RECURSIVE AllDigits(_)
AllDigits(s) ==
  Len(s) = 0 \/ (DigitVal(SubSeq(s, 1, 1)) >= 0 /\ AllDigits(SubSeq(s, 2, Len(s))))

RECURSIVE NatVal(_, _)
NatVal(s, acc) ==
  IF Len(s) = 0 THEN acc
  ELSE NatVal(SubSeq(s, 2, Len(s)), 10 * acc + DigitVal(SubSeq(s, 1, 1)))

\* int(s): a sign and decimal digits, ValueError otherwise.
ParseDigits(neg, body) ==
  IF Len(body) > 0 /\ AllDigits(body)
  THEN [exc |-> "", v |-> IF neg THEN -NatVal(body, 0) ELSE NatVal(body, 0)]
  ELSE [exc |-> "ValueError", v |-> 0]

ParseInt(s) ==
  IF StartsWith(s, "-") THEN ParseDigits(TRUE, SubSeq(s, 2, Len(s)))
  ELSE IF StartsWith(s, "+") THEN ParseDigits(FALSE, SubSeq(s, 2, Len(s)))
  ELSE ParseDigits(FALSE, s)

-----------------------------------------------------------------------------
(* Formatter chain *)

\* isinstance(value, isa) for the guards ANY_FORMAT uses. bool is a subclass of
\* int, int is registered as Integral (hence Rational and Real), str and tuple
\* are Sequences.
IsInstance(value, isa) ==
  CASE isa = "bool"     -> value.ty = "bool"
    [] isa = "str"      -> value.ty = "str"
    [] isa = "bytes"    -> FALSE
    [] isa = "Integral" -> value.ty \in {"bool", "int"}
    [] isa = "Rational" -> value.ty \in {"bool", "int"}
    [] isa = "Real"     -> value.ty \in {"bool", "int"}
    [] isa = "Mapping"  -> FALSE
    [] isa = "tuple"    -> value.ty = "tuple"
    [] isa = "Sequence" -> value.ty \in {"str", "tuple", "list"}
    [] isa = "Set"      -> FALSE

\* A formatter: its class and its isa guard ("" for isa=None).
Fmt(cls, isa) == [cls |-> cls, isa |-> isa]

\* UnionFormat(*formats) and its subclass RefFormat: the members are kept.
UnionOf(cls, formats, isa) == [cls |-> cls, isa |-> isa, formats |-> formats]
\* TupleFormat(elfmt): one formatter for every element, or, perpos, one for
\* each position. ListFormat(elfmt): one formatter for every element.
TupleOf(elfmt, perpos, isa) ==
  [cls |-> "TupleFormat", isa |-> isa, perpos |-> perpos, elfmt |-> elfmt]
ListOf(elfmt, isa) == [cls |-> "ListFormat", isa |-> isa, perpos |-> FALSE, elfmt |-> elfmt]

\* The members of ANY_FORMAT, in the order they are appended. The elements
\* of a tuple and of a list are formatted by AnyFormat(), the default elfmt.
ANY_FORMAT ==
  << Fmt("NoneFormat", ""), Fmt("BoolFormat", "bool"), Fmt("StrFormat", "str"),
     Fmt("BytesFormat", "bytes"), Fmt("IntFormat", "Integral"),
     Fmt("RationalFormat", "Rational"), Fmt("FloatFormat", "Real"),
     Fmt("DictFormat", "Mapping"), TupleOf(<<Fmt("AnyFormat", "")>>, FALSE, "tuple"),
     ListOf(<<Fmt("AnyFormat", "")>>, "Sequence"), Fmt("SetFormat", "Set"),
     Fmt("NDArrayFormat", ""), UnionOf("RefFormat", <<>>, "") >>

\* FORMATS: the constructor a name stands for, called without arguments; of
\* the names registered, those the guest programs of this model pass to jl.ret.
FORMATS ==
  [none |-> Fmt("NoneFormat", ""), bool |-> Fmt("BoolFormat", ""),
   int |-> Fmt("IntFormat", ""), ref |-> UnionOf("RefFormat", <<>>, ""),
   any |-> Fmt("AnyFormat", ""), rational |-> Fmt("RationalFormat", ""),
   buffer |-> Fmt("BufferFormat", ""), union |-> UnionOf("UnionFormat", <<>>, ""),
   optional |-> UnionOf("UnionFormat", <<Fmt("NoneFormat", "")>>, ""),
   tuple |-> TupleOf(<<Fmt("AnyFormat", "")>>, FALSE, ""),
   list |-> ListOf(<<Fmt("AnyFormat", "")>>, "")]

\* to_format(x) for a name x: FORMATS[x](), KeyError for an unknown name.
ToFormat(x) ==
  IF x \in DOMAIN FORMATS THEN [exc |-> "", fmt |-> FORMATS[x]]
  ELSE [exc |-> "KeyError", fmt |-> Fmt("", "")]

FmtOk(node, rid, rf) == [exc |-> "", str |-> "", node |-> node, refid |-> rid, refs |-> rf]
FmtErr(e, s, rid, rf) == [exc |-> e, str |-> s, node |-> JNull, refid |-> rid, refs |-> rf]

\* bool(value)
Truth(value) ==
  CASE value.ty = "NoneType" -> FALSE
    [] value.ty = "bool" -> value.v
    [] value.ty = "int" -> value.v # 0
    [] value.ty = "str" -> Len(value.v) > 0
    [] OTHER -> TRUE

\* int(value)
ToInt(value) ==
  CASE value.ty = "bool" -> [exc |-> "", v |-> IF value.v THEN 1 ELSE 0]
    [] value.ty = "int" -> [exc |-> "", v |-> value.v]
    [] value.ty = "str" -> ParseInt(value.v)
    [] OTHER -> [exc |-> "TypeError", v |-> 0]

\* The magnitude from which IntFormat boxes an integer: 1<<20.
IntInlineLimit == 2^20

\* An IntFormat that inlines up to the limit, the limit included.
IntBoxInclusive(n, rid, rf) ==
  IF n.exc # "" THEN FmtErr(n.exc, "int() cannot convert this", rid, rf)
  ELSE IF Abs(n.v) <= IntInlineLimit THEN FmtOk(JNum(n.v), rid, rf)
  ELSE FmtOk(JNode("int", Str(n.v)), rid, rf)

\* IntFormat._format after value = int(value), n being what int() gave.
IntBox(n, rid, rf) ==
  IF n.exc # "" THEN FmtErr(n.exc, "int() cannot convert this", rid, rf)
  ELSE IF Abs(n.v) < IntInlineLimit THEN FmtOk(JNum(n.v), rid, rf)
  ELSE FmtOk(JNode("int", Str(n.v)), rid, rf)

\* IntFormat._format
IntFormat(value, rid, rf) == IntBox(ToInt(value), rid, rf)

\* NoneFormat._format
NoneFormat(value, rid, rf) ==
  IF value # PyNone THEN FmtErr("TypeError", "expecting None", rid, rf)
  ELSE FmtOk(JNull, rid, rf)

\* A RefFormat that gives a value the table already holds the handle it has.
RefFormatReuse(value, rid, rf) ==
  IF \E h \in DOMAIN rf : rf[h] = value
  THEN FmtOk(JNode("ref", CHOOSE h \in DOMAIN rf : rf[h] = value), rid, rf)
  ELSE FmtOk(JNode("ref", Str(rid + 1)), rid + 1, Bind(rf, Str(rid + 1), value))

\* RefFormat._format
RefNode(g) == FmtOk(JNode("ref", g.handle), g.refid, g.refs)
RefFormat(value, rid, rf) == RefNode(GetRef(rid, rf, value))

\* RationalFormat._format: value.numerator and value.denominator.
RationalFormat(value, rid, rf) ==
  IF value.ty = "int" THEN FmtOk(JNode("rational", <<Str(value.v), "1">>), rid, rf)
  ELSE IF value.ty = "bool"
  THEN FmtOk(JNode("rational", <<IF value.v THEN "1" ELSE "0", "1">>), rid, rf)
  ELSE FmtErr("AttributeError", "no attribute 'numerator'", rid, rf)

\* BufferFormat._format: memoryview(value); no value of this model is a buffer.
BufferFormat(value, rid, rf) ==
  FmtErr("TypeError", "memoryview: a bytes-like object is required", rid, rf)

\* The characters of a string, each a string.
Chars(s) == [i \in 1..Len(s) |-> PyStr(SubSeq(s, i, i))]

\* Iterating over a value.
Iterable(value) == value.ty \in {"tuple", "list", "str"}
Elems(value) ==
  IF value.ty = "str" THEN Chars(value.v)
  ELSE IF value.ty = "list" /\ value.cyc THEN <<value>>
  ELSE value.v

RECURSIVE Format(_, _, _, _)
RECURSIVE UnionFormat(_, _, _, _, _)
RECURSIVE UnionNextAll(_, _, _, _)

\* A union whose try statement catches every exception of a member.
UnionNextAll(formats, i, value, r) ==
  IF r.exc # "" THEN UnionFormat(formats, i + 1, value, r.refid, r.refs) ELSE r

RECURSIVE UnionNext(_, _, _, _)
RECURSIVE FormatEach(_, _, _, _, _, _, _)
RECURSIVE EachNext(_, _, _, _, _, _)

\* [f(x) for x in value], or [f.format(x) for (f, x) in zip(elfmt, value)]:
\* the elements from position i on, acc being the nodes made so far. The
\* first element that fails ends the loop with its exception; what the
\* elements before it did to the Reference Table stays done.
FormatEach(fmts, perpos, vals, i, acc, rid, rf) ==
  IF i > Len(vals) THEN FmtOk(acc, rid, rf)
  ELSE EachNext(fmts, perpos, vals, i, acc,
                Format(IF perpos THEN fmts[i] ELSE fmts[1], vals[i], rid, rf))

EachNext(fmts, perpos, vals, i, acc, r) ==
  IF r.exc # "" THEN r
  ELSE FormatEach(fmts, perpos, vals, i + 1, Append(acc, r.node), r.refid, r.refs)

\* {'t': t, 'v': [...]} of the nodes r made, or what r raised.
Boxed(t, r) == IF r.exc # "" THEN r ELSE FmtOk(JNode(t, r.node), r.refid, r.refs)

\* Formatting the list that holds itself with a formatter that formats
\* elements with AnyFormat never ends: the interpreter raises RecursionError.
Endless(fmt, value) ==
  value.ty = "list" /\ value.cyc /\ ~fmt.perpos /\ fmt.elfmt[1].cls = "AnyFormat"

\* TupleFormat._format
TupleFormat(fmt, value, rid, rf) ==
  IF ~Iterable(value) THEN FmtErr("TypeError", "object is not iterable", rid, rf)
  ELSE IF fmt.perpos /\ Len(fmt.elfmt) # Len(Elems(value))
  THEN FmtErr("TypeError", "tuple is incorrect length", rid, rf)
  ELSE IF Endless(fmt, value)
  THEN FmtErr("RecursionError", "maximum recursion depth exceeded", rid, rf)
  ELSE Boxed("tuple", FormatEach(fmt.elfmt, fmt.perpos, Elems(value), 1, <<>>, rid, rf))

\* ListFormat._format
ListFormat(fmt, value, rid, rf) ==
  IF ~Iterable(value) THEN FmtErr("TypeError", "object is not iterable", rid, rf)
  ELSE IF Endless(fmt, value)
  THEN FmtErr("RecursionError", "maximum recursion depth exceeded", rid, rf)
  ELSE Boxed("list", FormatEach(fmt.elfmt, FALSE, Elems(value), 1, <<>>, rid, rf))

\* UnionFormat._format from member i on: the first member that does not raise
\* TypeError or ValueError decides; what a failed member did to the Reference
\* Table stays done.
UnionFormat(formats, i, value, rid, rf) ==
  IF i > Len(formats) THEN FmtErr("TypeError", "cannot format this", rid, rf)
  ELSE UnionNext(formats, i, value, Format(formats[i], value, rid, rf))

\* The try statement around member i, r being what the member did.
UnionNext(formats, i, value, r) ==
  IF r.exc \in {"TypeError", "ValueError"}
  THEN UnionFormat(formats, i + 1, value, r.refid, r.refs)
  ELSE r

\* Format.format: the isa guard, then the class's _format. The values of this
\* model do not pass the guards of the members of ANY_FORMAT that have no arm.
Format(fmt, value, rid, rf) ==
  IF fmt.isa # "" /\ ~IsInstance(value, fmt.isa)
  THEN FmtErr("TypeError", "expecting a " \o fmt.isa, rid, rf)
  ELSE CASE fmt.cls = "NoneFormat" -> NoneFormat(value, rid, rf)
         [] fmt.cls = "BoolFormat" -> FmtOk(JBool(Truth(value)), rid, rf)
         [] fmt.cls = "StrFormat" /\ value.ty = "str" -> FmtOk(JStr(value.v), rid, rf)
         [] fmt.cls = "IntFormat" -> IntFormat(value, rid, rf)
         [] fmt.cls = "NDArrayFormat" /\ value.ty \in {"NoneType", "object", "module"} ->
              FmtErr("TypeError", "not an array", rid, rf)
         [] fmt.cls = "RefFormat" -> RefFormat(value, rid, rf)
         [] fmt.cls = "RationalFormat" -> RationalFormat(value, rid, rf)
         [] fmt.cls = "BufferFormat" -> BufferFormat(value, rid, rf)
         [] fmt.cls = "UnionFormat" -> UnionFormat(fmt.formats, 1, value, rid, rf)
         [] fmt.cls = "TupleFormat" -> TupleFormat(fmt, value, rid, rf)
         [] fmt.cls = "ListFormat" -> ListFormat(fmt, value, rid, rf)
         [] fmt.cls = "AnyFormat" -> UnionFormat(ANY_FORMAT, 1, value, rid, rf)

\* ret(val, fmt): to_format(fmt).format(val); the node is carried by Result.
Ret(val, fmt, rid, rf) ==
  IF ToFormat(fmt).exc # "" THEN FmtErr(ToFormat(fmt).exc, Repr(fmt), rid, rf)
  ELSE Format(ToFormat(fmt).fmt, val, rid, rf)

\* What guest code passes to jl.ret as fmt: a name 'n', a tuple ('n', args...),
\* a list of these (the argument of 'tuple' that gives a formatter for each
\* position), or a Format instance f.
FName(n) == [k |-> "name", n |-> n, args |-> <<>>]
FTuple(n, args) == [k |-> "tuple", n |-> n, args |-> args]
FList(items) == [k |-> "list", n |-> "", args |-> items]
FInst(f) == [k |-> "inst", n |-> "", args |-> <<>>, f |-> f]

SpecOk(f) == [exc |-> "", str |-> "", fmt |-> f]
SpecErr(e, s) == [exc |-> e, str |-> s, fmt |-> Fmt("", "")]

RECURSIVE ToFormatSpec(_)
RECURSIVE ToFormats(_, _, _)
RECURSIVE ToFormatsNext(_, _, _, _)

\* [to_format(f) for f in specs] from position i on: the first that raises ends it.
ToFormats(specs, i, acc) ==
  IF i > Len(specs) THEN SpecOk(acc)
  ELSE ToFormatsNext(specs, i, acc, ToFormatSpec(specs[i]))

ToFormatsNext(specs, i, acc, r) ==
  IF r.exc # "" THEN r ELSE ToFormats(specs, i + 1, Append(acc, r.fmt))

\* UnionFormat(*formats) or RefFormat(*formats), r being the members made.
MakeUnion(cls, first, r) ==
  IF r.exc # "" THEN r ELSE SpecOk(UnionOf(cls, first \o r.fmt, ""))

\* TupleFormat(elfmt) and ListFormat(elfmt), r being the element formatters made.
MakeTuple(perpos, r) == IF r.exc # "" THEN r ELSE SpecOk(TupleOf(r.fmt, perpos, ""))
MakeList(r) == IF r.exc # "" THEN r ELSE SpecOk(ListOf(r.fmt, ""))

\* FORMATS[n](*args) for the constructors that take formatters.
Construct(n, args) ==
  CASE n = "union" -> MakeUnion("UnionFormat", <<>>, ToFormats(args, 1, <<>>))
    [] n = "ref" -> MakeUnion("RefFormat", <<>>, ToFormats(args, 1, <<>>))
    [] n = "optional" ->
         MakeUnion("UnionFormat", <<Fmt("NoneFormat", "")>>, ToFormats(args, 1, <<>>))
    [] n = "tuple" /\ args[1].k = "list" -> MakeTuple(TRUE, ToFormats(args[1].args, 1, <<>>))
    [] n = "tuple" /\ args[1].k # "list" -> MakeTuple(FALSE, ToFormats(args, 1, <<>>))
    [] n = "list" -> MakeList(ToFormats(args, 1, <<>>))

\* to_format(x) for every x guest code passes: an instance is returned as it
\* is; a name or the head of a tuple is looked up in FORMATS (KeyError) and
\* called with the arguments; a list is not callable.
ToFormatSpec(x) ==
  CASE x.k = "inst" -> SpecOk(x.f)
    [] x.k = "list" -> SpecErr("TypeError", "'list' object is not callable")
    [] x.k \in {"name", "tuple"} /\ x.n \notin DOMAIN FORMATS -> SpecErr("KeyError", Repr(x.n))
    [] x.k \in {"name", "tuple"} /\ x.n \in DOMAIN FORMATS /\ x.args = <<>> ->
         SpecOk(FORMATS[x.n])
    [] x.k = "tuple" /\ x.n \in DOMAIN FORMATS /\ x.args # <<>> -> Construct(x.n, x.args)

\* to_format(fmt).format(val), t being what to_format did.
RetFormat(t, val, rid, rf) ==
  IF t.exc # "" THEN FmtErr(t.exc, t.str, rid, rf) ELSE Format(t.fmt, val, rid, rf)

\* ret(val, fmt) for every fmt guest code passes.
RetSpec(val, spec, rid, rf) == RetFormat(ToFormatSpec(spec), val, rid, rf)

-----------------------------------------------------------------------------
(* Decoder *)

\* int(v) of an int node, n being what int() did.
IntLocal(n) ==
  IF n.exc = "" THEN [exc |-> "", str |-> "", val |-> PyInt(n.v)]
  ELSE [exc |-> n.exc, str |-> "invalid literal for int()", val |-> PyNone]

\* get_local(v): null, booleans, numbers and strings pass through; a ref node
\* is looked up in the Reference Table (KeyError if absent); an int node is
\* parsed. (The tuple, list, float and dict nodes are not sent by the clients
\* of this model.)
GetLocal(v, rf) ==
  CASE v.j = "null"   -> [exc |-> "", str |-> "", val |-> PyNone]
    [] v.j = "bool"   -> [exc |-> "", str |-> "", val |-> PyBool(v.v)]
    [] v.j = "number" -> [exc |-> "", str |-> "", val |-> PyInt(v.v)]
    [] v.j = "string" -> [exc |-> "", str |-> "", val |-> PyStr(v.v)]
    [] v.j = "object" /\ v.t = "ref" ->
         IF v.v \in DOMAIN rf THEN [exc |-> "", str |-> "", val |-> rf[v.v]]
         ELSE [exc |-> "KeyError", str |-> Repr(v.v), val |-> PyNone]
    [] v.j = "object" /\ v.t = "int" -> IntLocal(ParseInt(v.v))
    [] v.j = "object" /\ v.t \notin {"ref", "tuple", "list", "int", "float", "dict"} ->
         [exc |-> "AssertionError", str |-> "", val |-> PyNone]

\* The module jl (jl.ret = ret).
jl == PyModule(ModName \o ".jl")

RECURSIVE GetLocalsFrom(_, _, _, _)
RECURSIVE GetLocalsItem(_, _, _, _, _)
\* The loop of get_locals over the items from position i, ans built so far.
GetLocalsFrom(items, i, ans, rf) ==
  IF i > Len(items) THEN [exc |-> "", str |-> "", isNone |-> FALSE, d |-> ans]
  ELSE GetLocalsItem(items, i, ans, rf, GetLocal(items[i][2], rf))

\* ans[k] = get_local(v) for item i, g being what get_local did.
GetLocalsItem(items, i, ans, rf, g) ==
  IF g.exc # "" THEN [exc |-> g.exc, str |-> g.str, isNone |-> FALSE, d |-> ans]
  ELSE GetLocalsFrom(items, i + 1, Bind(ans, items[i][1], g.val), rf)

\* get_locals(lcls): None for null; otherwise {'jl': jl} and the decoded items.
\* lcls is JNull or [j |-> "map", items |-> <<<<name, wire value>>, ...>>].
GetLocals(lcls, rf) ==
  IF lcls = JNull THEN [exc |-> "", str |-> "", isNone |-> TRUE, d |-> <<>>]
  ELSE GetLocalsFrom(lcls.items, 1, ("jl" :> jl), rf)

-----------------------------------------------------------------------------
(* exec(code, gbls, lcls) on the guest programs of this model *)

\* pass
CPass == [op |-> "pass"]
\* raise ValueError('x')
CRaise == [op |-> "raise"]
\* __import__('time').sleep(Delay)
CSleep == [op |-> "sleep"]
\* global x; x = <v>
CSetGlobal(x, v) == [op |-> "set_global", x |-> x, v |-> v]
\* x = <v>
CAssign(x, v) == [op |-> "assign", x |-> x, v |-> v]
\* jl.ret(<v>, fmt)
CRetLit(v, fmt) == [op |-> "ret_lit", v |-> v, fmt |-> fmt]
\* jl.ret(x, fmt)
CRetName(x, fmt) == [op |-> "ret_name", x |-> x, fmt |-> fmt]
\* jl.ret(<v>, <spec>), spec being a name, a tuple or a Format instance
CRetSpec(v, spec) == [op |-> "ret_spec", v |-> v, spec |-> spec]

\* LOAD_NAME x: locals, then globals; NameError otherwise.
LoadName(x, lc, gbls) ==
  IF ~lc.isNone /\ x \in DOMAIN lc.d THEN [exc |-> "", val |-> lc.d[x]]
  ELSE IF x \in DOMAIN gbls THEN [exc |-> "", val |-> gbls[x]]
  ELSE [exc |-> "NameError", val |-> PyNone]

NameErrorStr(x) == "name '" \o x \o "' is not defined"

ExecEnd(kind, e, s, node, mods, rid, rf, secs) ==
  [kind |-> kind, exc |-> e, str |-> s, node |-> node, mods |-> mods,
   refid |-> rid, refs |-> rf, secs |-> secs]

\* raise Result(node), or what to_format(fmt).format(val) raised, r being what it did.
Raised(r, mods) ==
  IF r.exc # "" THEN ExecEnd("raise", r.exc, r.str, JNull, mods, r.refid, r.refs, 0)
  ELSE ExecEnd("Result", "", "", r.node, mods, r.refid, r.refs, 0)

\* The call jl.ret(val, fmt) once jl has been loaded.
CallRet(j, val, fmt, mods, rid, rf) ==
  IF j # jl THEN ExecEnd("raise", "AttributeError", "ret", JNull, mods, rid, rf, 0)
  ELSE Raised(Ret(val, fmt, rid, rf), mods)

\* The code jl.ret(a, fmt), j and a being what loading jl and the argument gave.
RetCode(j, a, argname, fmt, mods, rid, rf) ==
  IF j.exc # "" THEN ExecEnd("raise", j.exc, NameErrorStr("jl"), JNull, mods, rid, rf, 0)
  ELSE IF a.exc # ""
  THEN ExecEnd("raise", a.exc, NameErrorStr(argname), JNull, mods, rid, rf, 0)
  ELSE CallRet(j.val, a.val, fmt, mods, rid, rf)

\* The code jl.ret(<v>, <spec>), j being what loading jl gave.
RetSpecCode(j, val, spec, mods, rid, rf) ==
  IF j.exc # "" THEN ExecEnd("raise", j.exc, NameErrorStr("jl"), JNull, mods, rid, rf, 0)
  ELSE IF j.val # jl THEN ExecEnd("raise", "AttributeError", "ret", JNull, mods, rid, rf, 0)
  ELSE Raised(RetSpec(val, spec, rid, rf), mods)

\* The code running with globals mods[key] and locals lc.
ExecCode(code, key, lc, mods, rid, rf) ==
  CASE code.op = "pass"  -> ExecEnd("end", "", "", JNull, mods, rid, rf, 0)
    [] code.op = "raise" -> ExecEnd("raise", "ValueError", "x", JNull, mods, rid, rf, 0)
    [] code.op = "sleep" -> ExecEnd("end", "", "", JNull, mods, rid, rf, Delay)
    [] code.op = "set_global" ->
         ExecEnd("end", "", "", JNull, Bind(mods, key, Bind(mods[key], code.x, code.v)),
                 rid, rf, 0)
    [] code.op = "assign" ->
         \* STORE_NAME: into the locals; they are the globals when lcls is None
         IF lc.isNone
         THEN ExecEnd("end", "", "", JNull, Bind(mods, key, Bind(mods[key], code.x, code.v)),
                      rid, rf, 0)
         ELSE ExecEnd("end", "", "", JNull, mods, rid, rf, 0)
    [] code.op = "ret_lit" ->
         RetCode(LoadName("jl", lc, mods[key]), [exc |-> "", val |-> code.v], "",
                 code.fmt, mods, rid, rf)
    [] code.op = "ret_spec" ->
         RetSpecCode(LoadName("jl", lc, mods[key]), code.v, code.spec, mods, rid, rf)
    [] code.op = "ret_name" ->
         RetCode(LoadName("jl", lc, mods[key]), LoadName(code.x, lc, mods[key]), code.x,
                 code.fmt, mods, rid, rf)

\* exec(code, gbls, lcls) with gbls = mods[key]: exec binds __builtins__ in
\* gbls, then the code runs to its end, to jl.ret's Result or to an exception.
Exec(code, key, lc, mods, rid, rf) ==
  IF "__builtins__" \in DOMAIN mods[key] THEN ExecCode(code, key, lc, mods, rid, rf)
  ELSE ExecCode(code, key, lc,
                Bind(mods, key, Bind(mods[key], "__builtins__", PyModule("builtins"))),
                rid, rf)

-----------------------------------------------------------------------------
(* do_run *)

ResultMsg(id, node) == [tag |-> "result", id |-> id, result |-> node]
ErrorMsg(id, type, s) == [tag |-> "error", id |-> id, type |-> type, str |-> s]

\* What a run of do_run did. sends: out is passed to send; ran: exec was
\* reached; secs: the time the guest code blocked the event loop for.
RunEnd(sends, out, ran, mods, rid, rf, secs) ==
  [sends |-> sends, out |-> out, ran |-> ran, mods |-> mods, refid |-> rid,
   refs |-> rf, secs |-> secs]

\* A handler that lets what is not a Result escape: the task dies, nothing is sent.
DoRunNoCatch(msg, ex) ==
  IF ex.kind = "raise"
  THEN RunEnd(FALSE, JNull, TRUE, ex.mods, ex.refid, ex.refs, ex.secs)
  ELSE RunEnd(TRUE, ResultMsg(msg.id, ex.node), TRUE, ex.mods, ex.refid, ex.refs, ex.secs)

\* do_run after exec, ex being what exec did: the except clauses and out.
DoRunExec(msg, ex) ==
  IF ex.kind = "raise"
  THEN RunEnd(TRUE, ErrorMsg(msg.id, ex.exc, ex.str), TRUE, ex.mods, ex.refid, ex.refs,
              ex.secs)
  ELSE RunEnd(TRUE, ResultMsg(msg.id, ex.node), TRUE, ex.mods, ex.refid, ex.refs, ex.secs)

\* A do_run that runs the code although a ref node named an absent handle.
DoRunLenient(msg, gs, rid, rf, lc) ==
  IF lc.exc \notin {"", "KeyError"}
  THEN RunEnd(TRUE, ErrorMsg(msg.id, lc.exc, lc.str), FALSE, gs.mods, rid, rf, 0)
  ELSE DoRunExec(msg, Exec(msg.code, gs.key, lc, gs.mods, rid, rf))

\* do_run after get_locals, lc being what get_locals did.
DoRunLocals(msg, gs, rid, rf, lc) ==
  IF lc.exc # ""
  THEN RunEnd(TRUE, ErrorMsg(msg.id, lc.exc, lc.str), FALSE, gs.mods, rid, rf, 0)
  ELSE DoRunExec(msg, Exec(msg.code, gs.key, lc, gs.mods, rid, rf))

\* do_run after get_scope, gs being what get_scope did.
DoRunScope(msg, mods, rid, rf, gs) ==
  IF gs.exc # ""
  THEN RunEnd(TRUE, ErrorMsg(msg.id, gs.exc, Repr(msg.scope)), FALSE, mods, rid, rf, 0)
  ELSE DoRunLocals(msg, gs, rid, rf, GetLocals(msg.locals, rf))

\* do_run up to its send: get_scope, get_locals, exec, and the response out.
DoRun(msg, mods, rid, rf) == DoRunScope(msg, mods, rid, rf, GetScope(mods, msg.scope))

-----------------------------------------------------------------------------
(* Requests the clients send *)

EmptyLocals == [j |-> "map", items |-> <<>>]
RefLocals(h) == [j |-> "map", items |-> << <<"y", JNode("ref", h)>> >>]

TEcho == [tag |-> "echo"]
TSleepEcho == [tag |-> "sleep-echo", sleep |-> Delay]
TStop == [tag |-> "stop"]
TPing == [tag |-> "ping"]
TDelref(h) == [tag |-> "delref", ref |-> h]
TRun(scope, code, lcls) == [tag |-> "run", scope |-> scope, code |-> code, locals |-> lcls]

\* 1<<30
Big == 2^30

\* jl.ret(object()) in a private scope: allocates a handle through 'any'.
TAlloc == TRun("@a", CRetLit(PyObj("o"), "any"), EmptyLocals)
\* A run whose locals hold a ref node of handle "1".
TUse == TRun("@a", CSetGlobal("x", PyInt(1)), RefLocals("1"))
\* jl.ret(object(), 'ref') in the server module's own scope.
TAllocRef == TRun(ModName, CRetLit(PyObj("o"), "ref"), JNull)

TSetA == TRun("@a", CSetGlobal("x", PyInt(1)), EmptyLocals)
TGetA == TRun("@a", CRetName("x", "any"), EmptyLocals)
TGetB == TRun("@b", CRetName("x", "any"), EmptyLocals)
\* x = 1 and jl.ret(x) in the server module's own scope, with locals null.
TAssignMain == TRun(ModName, CAssign("x", PyInt(1)), JNull)
TGetMain == TRun(ModName, CRetName("x", "any"), JNull)
\* x = 1 in a private scope, with locals {}.
TAssignA == TRun("@a", CAssign("x", PyInt(1)), EmptyLocals)

\* {"scope":"s","code":"jl.ret(1<<30)","locals":null}
TBigS == TRun("s", CRetLit(PyInt(Big), "any"), JNull)
TBigNull == TRun("@a", CRetLit(PyInt(Big), "any"), JNull)
TBigMain == TRun(ModName, CRetLit(PyInt(Big), "any"), JNull)
TBig == TRun("@a", CRetLit(PyInt(Big), "any"), EmptyLocals)
TNameJson == TRun("json", CRetName("__name__", "any"), EmptyLocals)
TNameMain == TRun(ModName, CRetName("__name__", "any"), EmptyLocals)
TRaise == TRun(ModName, CRaise, JNull)
TBadFormat == TRun("@a", CRetLit(PyStr("abc"), "int"), EmptyLocals)
TBadLocals == TRun("@a", CPass, RefLocals("1"))
TPass == TRun("@a", CPass, EmptyLocals)
TSleepRun == TRun("@a", CSleep, EmptyLocals)

\* jl.ret(<v>, ('union', members...)) in a private scope.
TUnion(v, members) == TRun("@a", CRetSpec(v, FTuple("union", members)), EmptyLocals)
\* Unions over 5, 'abc' and object(): a member that accepts first or last, members
\* that fail with TypeError, ValueError and AttributeError, no member, nested unions.
MenuUnion ==
  { TUnion(PyInt(5), <<FName("ref"), FName("int")>>),
    TUnion(PyInt(5), <<FName("int"), FName("ref")>>),
    TUnion(PyObj("o"), <<FName("int"), FName("ref")>>),
    TUnion(PyStr("abc"), <<FName("int"), FName("ref")>>),
    TUnion(PyStr("abc"), <<FName("rational"), FName("ref")>>),
    TUnion(PyStr("abc"), <<>>),
    TUnion(PyObj("o"), <<FName("int"), FName("none"), FName("buffer")>>),
    TUnion(PyObj("o"), <<FTuple("union", <<>>), FTuple("union", <<FName("int")>>)>>),
    TUnion(PyStr("abc"), <<FName("rational")>>) }

\* The 'ref' formatter made in each way: by its name, by ('ref', members...)
\* whose members construct or do not, and as an instance RefFormat(isa=str)
\* that code of the scope __main__ makes; over None, True, 5, 'abc', object(),
\* a tuple and the list that holds itself.
MenuRef ==
  { TRun("@a", CRetSpec(v, FName("ref")), EmptyLocals) :
      v \in {PyNone, PyBool(TRUE), PyInt(5), PyStr("abc"), PyObj("o"),
             PyTuple(<<PyInt(1), PyObj("o")>>), PyCycle} }
  \cup { TRun("@a", CRetSpec(PyStr("abc"), FTuple("ref", <<FName("int")>>)), EmptyLocals),
         TRun("@a", CRetSpec(PyInt(5), FTuple("ref", <<FName("nosuch")>>)), EmptyLocals),
         TRun(ModName, CRetSpec(PyInt(5), FInst(UnionOf("RefFormat", <<>>, "str"))),
              EmptyLocals),
         TRun(ModName, CRetSpec(PyStr("abc"), FInst(UnionOf("RefFormat", <<>>, "str"))),
              EmptyLocals) }

\* jl.ret(n, 'int') for integers on both sides of 1<<20 and on it, and
\* jl.ret(x, 'int') with the local x sent as the wire form of such an integer.
MenuInt ==
  { TRun("@a", CRetLit(PyInt(n), "int"), EmptyLocals) :
      n \in {0, -1, 2^20 - 1, 1 - 2^20, 2^20, -(2^20), Big} }
  \cup { TRun("@a", CRetName("x", "int"), [j |-> "map", items |-> << <<"x", w>> >>]) :
           w \in {JNum(2^20 - 1), JNode("int", "1048576"), JNode("int", "-1048576")} }

\* jl.ret(v, 'any') over None, True, 5, 'abc', object(), a tuple and a list
\* that hold an object, and the list that holds itself.
MenuAny ==
  { TRun("@a", CRetLit(v, "any"), EmptyLocals) :
      v \in {PyNone, PyBool(TRUE), PyInt(5), PyStr("abc"), PyObj("o"),
             PyTuple(<<PyInt(1), PyObj("o")>>), PyList(<<PyObj("o")>>), PyCycle} }

\* jl.ret of the pairs (object(), 'abc') and (object(), 5) through
\* ('tuple', ['ref', 'int']), alone and as the first member of a union, and
\* jl.ret(object(), 'ref'), with the releases of the first two handles.
MenuLeak ==
  { TRun("@a", CRetSpec(PyTuple(<<PyObj("o"), x>>), spec), EmptyLocals) :
      x \in {PyStr("abc"), PyInt(5)},
      spec \in {FTuple("tuple", <<FList(<<FName("ref"), FName("int")>>)>>),
                FTuple("union", <<FTuple("tuple", <<FList(<<FName("ref"), FName("int")>>)>>),
                                  FName("ref")>>)} }
  \cup {TRun("@a", CRetSpec(PyObj("o"), FName("ref")), EmptyLocals), TDelref("1"), TDelref("2")}

\* The requests of the specifications below.
MenuRefs == {TAlloc, TDelref("1"), TDelref("2"), TUse}
MenuAll == {TAllocRef, TDelref("1"), TDelref("2"), TEcho, TSleepEcho, TStop, TPing}
MenuScopes == {TSetA, TGetA, TGetB, TAssignMain, TGetMain, TAssignA}
MenuRun == {TBigS, TBigNull, TBigMain, TBig, TNameJson, TNameMain, TRaise, TBadFormat,
            TBadLocals, TPass}
MenuOrder == {TSleepEcho, TSleepRun, TEcho}

\* The request a client makes of a template: the template with the request's
\* id; delref and stop carry no id.
WithId(t, id) ==
  IF t.tag \in {"delref", "stop"} THEN t
  ELSE [k \in DOMAIN t \cup {"id"} |-> IF k = "id" THEN id ELSE t[k]]

-----------------------------------------------------------------------------
(* State *)

VARIABLES
  refid,     \* the counter get_ref advances
  refs,      \* the Reference Table: handle -> value
  modules,   \* sys.modules: module name -> namespace (name -> value)
  tasks,     \* background_tasks: the tasks spawned and not finished
  ready,     \* the event loop's queue of coroutines ready to run, oldest first
  cur,       \* the connection whose serve holds the loop between two requests, or 0
  pc,        \* serve's position, per connection
  net,       \* requests sent by the client and not yet fed to the reader
  buf,       \* lines in the reader's buffer
  eof,       \* the client has closed its end
  out,       \* responses written to the connection's transport
  handed,    \* messages passed to send(), per connection (history)
  sent,      \* requests the client has sent, each with imm (history)
  fresh      \* the client sent a request and no time has passed since

vars == <<refid, refs, modules, tasks, ready, cur, pc, net, buf, eof, out, handed,
          sent, fresh>>

ServeCo(c) == [co |-> "serve", conn |-> c, id |-> 0]
TaskCo(c, id) == [co |-> "task", conn |-> c, id |-> id]
CoOf(t) == TaskCo(t.conn, t.msg.id)

\* sys.modules when serving starts: the server module, whose globals bind jl,
\* and the modules it imported, of which json stands for all.
InitModules ==
  (ModName :> (("__name__" :> PyStr(ModName)) @@ ("__builtins__" :> PyModule("builtins"))
               @@ ("jl" :> jl)))
  @@ ("json" :> (("__name__" :> PyStr("json")) @@ ("__builtins__" :> PyModule("builtins"))))

Init ==
  /\ refid = 0
  /\ refs = <<>>
  /\ modules = InitModules
  /\ tasks = {}
  /\ ready = <<>>
  /\ cur = 0
  /\ pc = [c \in Conns |-> "recv_wait"]
  /\ net = [c \in Conns |-> <<>>]
  /\ buf = [c \in Conns |-> <<>>]
  /\ eof = [c \in Conns |-> FALSE]
  /\ out = [c \in Conns |-> <<>>]
  /\ handed = [c \in Conns |-> <<>>]
  /\ sent = [c \in Conns |-> <<>>]
  /\ fresh = [c \in Conns |-> FALSE]

RECURSIVE SumLen(_, _)
SumLen(f, S) == IF S = {} THEN 0
                ELSE LET c == CHOOSE x \in S : TRUE IN Len(f[c]) + SumLen(f, S \ {c})

Deliverable(c) == net[c] # <<>> /\ pc[c] \notin {"closed", "crashed"}

-----------------------------------------------------------------------------
(* The clients and the transport *)

\* A client writes a request to its connection; the clients send at most max
\* requests in all. The k-th request of a connection has id k, if it has one.
Send(c, t, max) ==
  /\ SumLen(sent, Conns) < max
  /\ ~eof[c]
  /\ sent' = [sent EXCEPT ![c] = Append(@, [msg |-> WithId(t, Len(sent[c]) + 1),
                                            imm |-> fresh[c]])]
  /\ net' = [net EXCEPT ![c] = Append(@, WithId(t, Len(sent[c]) + 1))]
  /\ fresh' = [fresh EXCEPT ![c] = TRUE]
  /\ UNCHANGED <<refid, refs, modules, tasks, ready, cur, pc, buf, eof, out, handed>>

\* recv's readline is fed a line (data_received); a serve suspended in it is woken.
Deliver(c) ==
  /\ cur = 0
  /\ Deliverable(c)
  /\ buf' = [buf EXCEPT ![c] = Append(@, Head(net[c]))]
  /\ net' = [net EXCEPT ![c] = Tail(@)]
  /\ IF pc[c] = "recv_wait"
     THEN pc' = [pc EXCEPT ![c] = "runnable"] /\ ready' = Append(ready, ServeCo(c))
     ELSE UNCHANGED <<pc, ready>>
  /\ UNCHANGED <<refid, refs, modules, tasks, cur, eof, out, handed, sent, fresh>>

\* The client closes its end after all it sent has arrived (eof_received).
Eof(c) ==
  /\ cur = 0
  /\ ~eof[c]
  /\ net[c] = <<>>
  /\ pc[c] \notin {"closed", "crashed"}
  /\ eof' = [eof EXCEPT ![c] = TRUE]
  /\ IF pc[c] = "recv_wait"
     THEN pc' = [pc EXCEPT ![c] = "runnable"] /\ ready' = Append(ready, ServeCo(c))
     ELSE UNCHANGED <<pc, ready>>
  /\ UNCHANGED <<refid, refs, modules, tasks, cur, net, buf, out, handed, sent, fresh>>

\* The transport's buffer has drained: a serve suspended in drain() is woken.
DrainDone(c) ==
  /\ cur = 0
  /\ pc[c] = "drain_wait"
  /\ pc' = [pc EXCEPT ![c] = "runnable"]
  /\ ready' = Append(ready, ServeCo(c))
  /\ UNCHANGED <<refid, refs, modules, tasks, cur, net, buf, eof, out, handed, sent,
                 fresh>>

-----------------------------------------------------------------------------
(* send *)

\* A write that puts the line on the transport twice.
WrittenTwice(c, m) ==
  IF pc[c] \in {"closed", "crashed"} THEN out ELSE [out EXCEPT ![c] = Append(Append(@, m), m)]

\* fp.write(line) of send: a transport that was closed drops the line (and
\* drain() then raises ConnectionResetError in the sender).
Written(c, m) ==
  IF pc[c] \in {"closed", "crashed"} THEN out ELSE [out EXCEPT ![c] = Append(@, m)]

Handed(c, m) == [handed EXCEPT ![c] = Append(@, m)]

-----------------------------------------------------------------------------
(* serve *)

\* serve of c is the coroutine the loop runs next, or is running.
Running(c) ==
  /\ pc[c] = "runnable"
  /\ \/ cur = c
     \/ cur = 0 /\ ready # <<>> /\ Head(ready) = ServeCo(c)

\* The ready queue without serve of c, once it runs.
Rest(c) == IF cur = c THEN ready ELSE Tail(ready)

\* serve of c has a line to read.
Reads(c, tags) == Running(c) /\ buf[c] # <<>> /\ Head(buf[c]).tag \in tags

\* Back at recv after a request: the next line is read at once if it is
\* buffered; at end of input serve leaves the loop and closes the writer;
\* otherwise serve suspends in readline.
Again(c) ==
  /\ buf' = [buf EXCEPT ![c] = Tail(@)]
  /\ IF Tail(buf[c]) # <<>> THEN pc' = pc /\ cur' = c
     ELSE IF eof[c] THEN pc' = [pc EXCEPT ![c] = "closed"] /\ cur' = 0
     ELSE pc' = [pc EXCEPT ![c] = "recv_wait"] /\ cur' = 0

KnownTags == {"echo", "sleep-echo", "stop", "run", "delref"}

\* tag == 'echo': await send(writer, msg); drain() suspends if the transport is paused.
ServeEcho(c) ==
  /\ Reads(c, {"echo"})
  /\ out' = Written(c, Head(buf[c]))
  /\ handed' = Handed(c, Head(buf[c]))
  /\ ready' = Rest(c)
  /\ \/ Again(c)
     \/ /\ buf' = [buf EXCEPT ![c] = Tail(@)]
        /\ pc' = [pc EXCEPT ![c] = "drain_wait"]
        /\ cur' = 0
  /\ UNCHANGED <<refid, refs, modules, tasks, net, eof, sent, fresh>>

\* run_in_background(co): the task is created and queued; it has not started.
Spawn(c) ==
  /\ tasks' = tasks \cup {[conn |-> c, msg |-> Head(buf[c]), st |-> "new", rem |-> 0]}
  /\ ready' = Append(Rest(c), TaskCo(c, Head(buf[c]).id))

\* tag == 'sleep-echo'
ServeSleepEcho(c) ==
  /\ Reads(c, {"sleep-echo"})
  /\ Spawn(c)
  /\ Again(c)
  /\ UNCHANGED <<refid, refs, modules, net, eof, out, handed, sent, fresh>>

\* tag == 'run'
ServeRun(c) ==
  /\ Reads(c, {"run"})
  /\ Spawn(c)
  /\ Again(c)
  /\ UNCHANGED <<refid, refs, modules, net, eof, out, handed, sent, fresh>>

\* tag == 'stop': break, writer.close()
ServeStop(c) ==
  /\ Reads(c, {"stop"})
  /\ buf' = [buf EXCEPT ![c] = Tail(@)]
  /\ pc' = [pc EXCEPT ![c] = "closed"]
  /\ cur' = 0
  /\ ready' = Rest(c)
  /\ UNCHANGED <<refid, refs, modules, tasks, net, eof, out, handed, sent, fresh>>

\* serve after del_ref, d being what del_ref did: an exception ends serve.
Released(c, d) ==
  /\ refs' = d.refs
  /\ IF d.exc # ""
     THEN /\ buf' = [buf EXCEPT ![c] = Tail(@)]
          /\ pc' = [pc EXCEPT ![c] = "crashed"]
          /\ cur' = 0
     ELSE Again(c)

\* tag == 'delref': del_ref(msg['ref'])
ServeDelref(c) ==
  /\ Reads(c, {"delref"})
  /\ ready' = Rest(c)
  /\ Released(c, DelRef(refs, Head(buf[c]).ref))
  /\ UNCHANGED <<refid, modules, tasks, net, eof, out, handed, sent, fresh>>

\* Any other tag: no branch is taken.
ServeOther(c) ==
  /\ Running(c) /\ buf[c] # <<>> /\ Head(buf[c]).tag \notin KnownTags
  /\ ready' = Rest(c)
  /\ Again(c)
  /\ UNCHANGED <<refid, refs, modules, tasks, net, eof, out, handed, sent, fresh>>

\* serve resumes with nothing buffered: at end of input recv returns None and
\* serve closes the writer; otherwise it suspends in readline.
ServeNoLine(c) ==
  /\ Running(c) /\ buf[c] = <<>>
  /\ ready' = Rest(c)
  /\ cur' = 0
  /\ pc' = [pc EXCEPT ![c] = IF eof[c] THEN "closed" ELSE "recv_wait"]
  /\ UNCHANGED <<refid, refs, modules, tasks, net, buf, eof, out, handed, sent, fresh>>

-----------------------------------------------------------------------------
(* Tasks and time *)

\* Task t is the coroutine the loop runs next.
Next1(t) == cur = 0 /\ ready # <<>> /\ Head(ready) = CoOf(t)

\* secs of time pass: timers run down, and no request is fresh any more.
Elapse(T, secs) == {[t EXCEPT !.rem = IF @ > secs THEN @ - secs ELSE 0] : t \in T}
Stale(secs) == IF secs > 0 THEN [c \in Conns |-> FALSE] ELSE fresh

\* sleep_echo up to its await asyncio.sleep(msg['sleep']): a timer is set; a
\* delay of zero or less yields to the loop once.
SleepEchoStart(t) ==
  /\ Next1(t) /\ t.st = "new" /\ t.msg.tag = "sleep-echo"
  /\ IF t.msg.sleep > 0
     THEN /\ tasks' = (tasks \ {t}) \cup {[t EXCEPT !.st = "sleeping", !.rem = t.msg.sleep]}
          /\ ready' = Tail(ready)
     ELSE /\ tasks' = (tasks \ {t}) \cup {[t EXCEPT !.st = "woken"]}
          /\ ready' = Append(Tail(ready), CoOf(t))
  /\ UNCHANGED <<refid, refs, modules, cur, pc, net, buf, eof, out, handed, sent, fresh>>

\* The timer of a sleeping task is due: the loop queues the task. The loop
\* handles input that has arrived before the timers that are due.
TimerFire(t) ==
  /\ cur = 0
  /\ t.st = "sleeping" /\ t.rem = 0
  /\ \A c \in Conns : ~Deliverable(c)
  /\ tasks' = (tasks \ {t}) \cup {[t EXCEPT !.st = "woken"]}
  /\ ready' = Append(ready, CoOf(t))
  /\ UNCHANGED <<refid, refs, modules, cur, pc, net, buf, eof, out, handed, sent, fresh>>

\* sleep_echo after the sleep: await send(writer, msg); the task is done.
SleepEchoSend(t) ==
  /\ Next1(t) /\ t.st = "woken"
  /\ out' = Written(t.conn, t.msg)
  /\ handed' = Handed(t.conn, t.msg)
  /\ tasks' = tasks \ {t}
  /\ ready' = Tail(ready)
  /\ UNCHANGED <<refid, refs, modules, cur, pc, net, buf, eof, sent, fresh>>

\* A do_run that yields to the loop between decoding its locals and the end
\* of its code: the delref requests that wait in the buffers act in between.
RanYield(t, r) ==
  /\ modules' = r.mods
  /\ refid' = r.refid
  /\ refs' = [h \in DOMAIN r.refs \
                UNION {{buf[c][i].ref : i \in {j \in DOMAIN buf[c] : buf[c][j].tag = "delref"}} :
                         c \in Conns}
               |-> r.refs[h]]
  /\ out' = IF r.sends THEN Written(t.conn, r.out) ELSE out
  /\ handed' = IF r.sends THEN Handed(t.conn, r.out) ELSE handed
  /\ tasks' = Elapse(tasks \ {t}, r.secs)
  /\ fresh' = Stale(r.secs)

\* The state after do_run, r being what it did.
Ran(t, r) ==
  /\ modules' = r.mods
  /\ refid' = r.refid
  /\ refs' = r.refs
  /\ out' = IF r.sends THEN Written(t.conn, r.out) ELSE out
  /\ handed' = IF r.sends THEN Handed(t.conn, r.out) ELSE handed
  /\ tasks' = Elapse(tasks \ {t}, r.secs)
  /\ fresh' = Stale(r.secs)

\* do_run, from its start to its send, in one turn of the loop; the task is
\* done. Guest code that blocks holds the loop while the time passes.
RunTask(t) ==
  /\ Next1(t) /\ t.st = "new" /\ t.msg.tag = "run"
  /\ Ran(t, DoRun(t.msg, modules, refid, refs))
  /\ ready' = Tail(ready)
  /\ UNCHANGED <<cur, pc, net, buf, eof, sent>>

\* The loop is idle and a unit of time passes until the next timer: nothing is
\* ready, no input has arrived, no timer is due.
Tick ==
  /\ cur = 0 /\ ready = <<>>
  /\ \A c \in Conns : ~Deliverable(c)
  /\ \A t \in tasks : ~(t.st = "sleeping" /\ t.rem = 0)
  /\ \E t \in tasks : t.rem > 0
  /\ tasks' = Elapse(tasks, 1)
  /\ fresh' = Stale(1)
  /\ UNCHANGED <<refid, refs, modules, ready, cur, pc, net, buf, eof, out, handed, sent>>

-----------------------------------------------------------------------------
(* Specifications *)

\* Every operation, on the requests of MenuAll.
Next ==
  \/ \E c \in Conns : \E t \in MenuAll : Send(c, t, MaxWide)
  \/ \E c \in Conns : Deliver(c)
  \/ \E c \in Conns : Eof(c)
  \/ \E c \in Conns : DrainDone(c)
  \/ \E c \in Conns : ServeEcho(c)
  \/ \E c \in Conns : ServeSleepEcho(c)
  \/ \E c \in Conns : ServeRun(c)
  \/ \E c \in Conns : ServeStop(c)
  \/ \E c \in Conns : ServeDelref(c)
  \/ \E c \in Conns : ServeOther(c)
  \/ \E c \in Conns : ServeNoLine(c)
  \/ \E t \in tasks : SleepEchoStart(t)
  \/ \E t \in tasks : TimerFire(t)
  \/ \E t \in tasks : SleepEchoSend(t)
  \/ \E t \in tasks : RunTask(t)
  \/ Tick

Spec == Init /\ [][Next]_vars

\* Allocation, release and use of handles, on connections that stay open.
NextRefs ==
  \/ \E c \in Conns : \E t \in MenuRefs : Send(c, t, MaxReqs)
  \/ \E c \in Conns : Deliver(c)
  \/ \E c \in Conns : ServeRun(c)
  \/ \E c \in Conns : ServeDelref(c)
  \/ \E t \in tasks : RunTask(t)

SpecRefs == Init /\ [][NextRefs]_vars

\* Runs that bind and read a name in private scopes, on connections that close.
NextScopes ==
  \/ \E c \in Conns : \E t \in MenuScopes : Send(c, t, MaxWide)
  \/ \E c \in Conns : Deliver(c)
  \/ \E c \in Conns : Eof(c)
  \/ \E c \in Conns : ServeRun(c)
  \/ \E c \in Conns : ServeNoLine(c)
  \/ \E t \in tasks : RunTask(t)

SpecScopes == Init /\ [][NextScopes]_vars

\* Runs that end in each way a run can end.
NextRun ==
  \/ \E c \in Conns : \E t \in MenuRun : Send(c, t, MaxWide)
  \/ \E c \in Conns : Deliver(c)
  \/ \E c \in Conns : ServeRun(c)
  \/ \E t \in tasks : RunTask(t)

SpecRun == Init /\ [][NextRun]_vars

\* The clients send run requests of a menu, and the runs are served.
NextRuns(menu) ==
  \/ \E c \in Conns : \E t \in menu : Send(c, t, MaxWide)
  \/ \E c \in Conns : Deliver(c)
  \/ \E c \in Conns : ServeRun(c)
  \/ \E t \in tasks : RunTask(t)

\* Runs that return through a union formatter.
SpecUnion == Init /\ [][NextRuns(MenuUnion)]_vars

\* Runs that return through the 'ref' formatter.
SpecRef == Init /\ [][NextRuns(MenuRef)]_vars

\* Runs that return integers through the 'int' formatter.
SpecInt == Init /\ [][NextRuns(MenuInt)]_vars

\* Runs that return through the 'any' formatter.
SpecAny == Init /\ [][NextRuns(MenuAny)]_vars

\* Runs that return through formatters that fail part of the way, and releases.
NextLeak ==
  \/ NextRuns(MenuLeak)
  \/ \E c \in Conns : ServeDelref(c)

SpecLeak == Init /\ [][NextLeak]_vars

\* A delayed request followed by an echo.
NextOrder ==
  \/ \E c \in Conns : \E t \in MenuOrder : Send(c, t, MaxWide)
  \/ \E c \in Conns : Deliver(c)
  \/ \E c \in Conns : DrainDone(c)
  \/ \E c \in Conns : ServeEcho(c)
  \/ \E c \in Conns : ServeSleepEcho(c)
  \/ \E c \in Conns : ServeRun(c)
  \/ \E c \in Conns : ServeNoLine(c)
  \/ \E t \in tasks : SleepEchoStart(t)
  \/ \E t \in tasks : TimerFire(t)
  \/ \E t \in tasks : SleepEchoSend(t)
  \/ \E t \in tasks : RunTask(t)
  \/ Tick

SpecOrder == Init /\ [][NextOrder]_vars

-----------------------------------------------------------------------------
(* What the properties below speak of *)

\* The request of connection c that has id.
Req(c, id) == sent[c][id].msg

\* The number of requests serve of c has read.
NRead(c) == Len(sent[c]) - Len(net[c]) - Len(buf[c])

\* A response that carries a handle of the Reference Table.
IsRefResp(m) == m.tag = "result" /\ m.result.j = "object" /\ m.result.t = "ref"

\* This step is the run of task t, a run request.
RunStep(t) == Next1(t) /\ t.msg.tag = "run" /\ t \notin tasks'

\* This step is serve of c reading a delref request.
DelrefStep(c) == Reads(c, {"delref"}) /\ buf'[c] = Tail(buf[c])

\* The response this step passes to send for connection c, if it passes one.
Sends(c, m) == handed'[c] = Append(handed[c], m)

\* The handles of the ref nodes in the locals of msg that the table does not hold.
DeadHandles(msg) ==
  IF msg.locals = JNull THEN {}
  ELSE {msg.locals.items[i][2].v :
          i \in {k \in DOMAIN msg.locals.items :
                   /\ msg.locals.items[k][2].j = "object"
                   /\ msg.locals.items[k][2].t = "ref"
                   /\ msg.locals.items[k][2].v \notin DOMAIN refs}}

-----------------------------------------------------------------------------
(* Reference Table: C1 .. C4 *)

\* C1: get_ref never returns a handle it has returned before: the handles of
\* all the ref responses, of all connections and tasks, are pairwise distinct,
\* also when handles were released in between; and every handle issued or in
\* the table is str(k) of a k the counter has passed, so the next one is new.
C1_UniqueHandles ==
  /\ \A c1 \in Conns, c2 \in Conns :
       \A i1 \in DOMAIN handed[c1], i2 \in DOMAIN handed[c2] :
         (IsRefResp(handed[c1][i1]) /\ IsRefResp(handed[c2][i2]) /\ <<c1, i1>> # <<c2, i2>>)
           => handed[c1][i1].result.v # handed[c2][i2].result.v
  /\ \A c \in Conns : \A i \in DOMAIN handed[c] :
       IsRefResp(handed[c][i]) => \E k \in 1..refid : handed[c][i].result.v = Str(k)
  /\ \A h \in DOMAIN refs : \E k \in 1..refid : h = Str(k)

\* Two allocations have been answered, and the handle of one has been released.
C1_Witness ==
  \E c1 \in Conns, c2 \in Conns :
    \E i1 \in DOMAIN handed[c1], i2 \in DOMAIN handed[c2] :
      /\ <<c1, i1>> # <<c2, i2>>
      /\ IsRefResp(handed[c1][i1]) /\ IsRefResp(handed[c2][i2])
      /\ handed[c1][i1].result.v \notin DOMAIN refs
      /\ handed[c2][i2].result.v \in DOMAIN refs

\* C2: processing a delref for h never raises (serve goes on) and sends
\* nothing; it leaves the table without h and with every other entry as it
\* was, so an h that is unknown or already released leaves the table unchanged,
\* and a second delref for h leaves the table the first one left.
C2_ReleaseIdempotent ==
  [][\A c \in Conns : DelrefStep(c) =>
       /\ pc'[c] # "crashed"
       /\ DOMAIN refs' = DOMAIN refs \ {Head(buf[c]).ref}
       /\ \A g \in DOMAIN refs' : refs'[g] = refs[g]
       /\ (Head(buf[c]).ref \notin DOMAIN refs => refs' = refs)
       /\ refid' = refid /\ out' = out /\ handed' = handed /\ tasks' = tasks]_vars

\* Handle "1" was issued, one connection has had two delrefs for it processed
\* and is still served, and the table holds another handle.
C2_Witness ==
  \E c \in Conns : \E i \in 1..NRead(c), k \in 1..NRead(c) :
    /\ i < k
    /\ Req(c, i).tag = "delref" /\ Req(c, i).ref = "1"
    /\ Req(c, k).tag = "delref" /\ Req(c, k).ref = "1"
    /\ pc[c] \notin {"closed", "crashed"}
    /\ refid >= 1 /\ "1" \notin DOMAIN refs

\* C3: an entry of the table stays as it is, same handle and same value, in
\* every step that is not the processing of a delref for that handle; and a
\* handle is in the table, and was not before, when its response is made.
C3_ValidUntilReleased ==
  [][/\ \A h \in DOMAIN refs :
          \/ h \in DOMAIN refs' /\ refs'[h] = refs[h]
          \/ \E c \in Conns : DelrefStep(c) /\ Head(buf[c]).ref = h
     /\ \A c \in Conns :
          (Len(handed'[c]) > Len(handed[c]) /\ IsRefResp(handed'[c][Len(handed'[c])]))
            => /\ handed'[c][Len(handed'[c])].result.v \in DOMAIN refs'
               /\ handed'[c][Len(handed'[c])].result.v \notin DOMAIN refs]_vars

\* The connection a handle was issued on has been closed, and the table still
\* maps the handle to the value.
C3_Witness ==
  \E c \in Conns : \E i \in DOMAIN handed[c] :
    /\ pc[c] = "closed"
    /\ IsRefResp(handed[c][i])
    /\ handed[c][i].result.v \in DOMAIN refs
    /\ refs[handed[c][i].result.v] = PyObj("o")

\* C4: the run of a request whose locals hold a ref node of a handle the table
\* does not hold passes to send the error response KeyError of that handle with
\* the request's id; the code is not executed (no namespace gains or changes a
\* binding; the scope's module at most is made); the table, the counter, the
\* other tasks, every serve and the other connections are as they were.
C4_UnknownReference ==
  [][\A t \in tasks : (RunStep(t) /\ DeadHandles(t.msg) # {}) =>
       /\ \E h \in DeadHandles(t.msg) : Sends(t.conn, ErrorMsg(t.msg.id, "KeyError", Repr(h)))
       /\ refs' = refs /\ refid' = refid
       /\ \A n \in DOMAIN modules : n \in DOMAIN modules' /\ modules'[n] = modules[n]
       /\ \A n \in DOMAIN modules' \ DOMAIN modules : modules'[n] = NewModule(n)
       /\ tasks' = tasks \ {t}
       /\ pc' = pc /\ buf' = buf /\ net' = net /\ ready' = Tail(ready)
       /\ \A c \in Conns \ {t.conn} : out'[c] = out[c] /\ handed'[c] = handed[c]]_vars

\* A connection was issued handle "1" and, the handle released, its next run,
\* whose locals name the handle, was answered KeyError; the code has bound nothing.
C4_Witness ==
  \E c \in Conns :
    /\ Len(handed[c]) >= 2
    /\ IsRefResp(handed[c][1]) /\ handed[c][1].result.v = "1"
    /\ handed[c][2] = ErrorMsg(Req(c, handed[c][2].id).id, "KeyError", Repr("1"))
    /\ Req(c, handed[c][2].id) = WithId(TUse, handed[c][2].id)
    /\ "x" \notin DOMAIN modules[ScopePath("@a")]

-----------------------------------------------------------------------------
(* The run task: C5, C6 *)

\* What a run of the request rq may answer with m: the three outcomes.
RunOutcome(rq, m) ==
  /\ m.id = rq.id
  /\ \/ m.tag = "result" /\ DOMAIN m = {"tag", "id", "result"}
     \/ m.tag = "error" /\ DOMAIN m = {"tag", "id", "type", "str"} /\ m.type # ""
  /\ (rq.code.op \in {"pass", "assign", "set_global", "sleep"} /\ m.tag = "result")
       => m.result = JNull
  /\ (rq.code.op \in {"ret_lit", "ret_name"} /\ m.tag = "result")
       => m.result.j \in {"number", "string", "object"}
  /\ rq.code.op = "raise" => m = ErrorMsg(rq.id, "ValueError", "x")
  /\ rq = WithId(TPass, rq.id) => m = ResultMsg(rq.id, JNull)
  /\ rq = WithId(TBadFormat, rq.id) => m.tag = "error" /\ m.type = "ValueError"
  /\ rq = WithId(TBadLocals, rq.id) =>
       (m.tag = "error" /\ m.type = "KeyError") \/ "1" \in DOMAIN refs
  /\ rq = WithId(TBigMain, rq.id) => m = ResultMsg(rq.id, JNode("int", "1073741824"))

\* C5: the run of a run request passes exactly one response to send, with the
\* request's id: result with a node where the code returned one, result null
\* where the code ran to its end, error with the type and text of what was
\* raised otherwise (by get_scope, get_locals, the code or the formatter); the
\* step ends this task only: every serve, every other task and the other
\* connections are as they were.
C5_RunOutcomes ==
  [][\A t \in tasks : RunStep(t) =>
       /\ Len(handed'[t.conn]) = Len(handed[t.conn]) + 1
       /\ Sends(t.conn, handed'[t.conn][Len(handed'[t.conn])])
       /\ RunOutcome(t.msg, handed'[t.conn][Len(handed'[t.conn])])
       /\ tasks' = tasks \ {t}
       /\ pc' = pc /\ cur' = cur /\ buf' = buf /\ net' = net /\ ready' = Tail(ready)
       /\ \A c \in Conns \ {t.conn} : out'[c] = out[c] /\ handed'[c] = handed[c]]_vars

\* A connection's run was answered with an error, a later run of the same
\* connection with a result, and the connection is still served.
C5_Witness ==
  \E c \in Conns :
    /\ Len(handed[c]) = 2
    /\ handed[c][1].tag = "error" /\ handed[c][1].id = 1
    /\ handed[c][2].tag = "result" /\ handed[c][2].id = 2
    /\ out[c] = handed[c]
    /\ pc[c] \notin {"closed", "crashed"}

\* C6: every run request whose code is jl.ret(1<<30), whatever its scope and
\* also with locals null, is answered with the result node of type int and
\* value "1073741824".
C6_JlPreBound ==
  \A c \in Conns : \A i \in DOMAIN handed[c] :
    Req(c, handed[c][i].id).code = CRetLit(PyInt(Big), "any")
      => handed[c][i] = ResultMsg(handed[c][i].id, JNode("int", "1073741824"))

-----------------------------------------------------------------------------
(* Scope Store: C7, C8, C9 *)

\* The key of sys.modules a scope name stands for.
ScopeKey(name) == IF StartsWith(name, "@") THEN ScopePath(name) ELSE name

\* This step is a run in the scope of module n whose code binds x in the scope.
BindStep(n, x) ==
  \E t \in tasks :
    /\ RunStep(t)
    /\ ScopeKey(t.msg.scope) = n
    /\ \/ t.msg.code.op = "set_global" /\ t.msg.code.x = x
       \/ t.msg.code.op = "assign" /\ t.msg.code.x = x /\ t.msg.locals = JNull

C8_PrivateIsolation ==
  /\ \A c \in Conns : \A i \in DOMAIN handed[c] :
       /\ Req(c, handed[c][i].id).scope = "@b"
            => handed[c][i] = ErrorMsg(handed[c][i].id, "NameError", NameErrorStr("x"))
       /\ StartsWith(Req(c, handed[c][i].id).scope, "@")
            => /\ ScopeKey(Req(c, handed[c][i].id).scope) \in DOMAIN modules
               /\ modules[ScopeKey(Req(c, handed[c][i].id).scope)]["__name__"]
                    = PyStr(ScopeKey(Req(c, handed[c][i].id).scope))
  /\ ScopePath("@b") \in DOMAIN modules => "x" \notin DOMAIN modules[ScopePath("@b")]
  /\ ScopePath("@a") # ScopePath("@b")

\* A connection bound x in "@a" and then read x in "@b": NameError.
C8_Witness ==
  \E c \in Conns :
    /\ Len(handed[c]) = 2
    /\ Req(c, 1) = WithId(TSetA, 1) /\ handed[c][1] = ResultMsg(1, JNull)
    /\ Req(c, 2) = WithId(TGetB, 2) /\ handed[c][2].tag = "error"
    /\ ScopePath("@a") \in DOMAIN modules
    /\ "x" \in DOMAIN modules[ScopePath("@a")]

\* C9: no run in a scope whose name does not start with '@' is answered with
\* the KeyError of its scope name, and all such scopes are one namespace: the
\* runs that return __name__ in them are all answered with the same result.
C9_UnmarkedTotal ==
  /\ \A c \in Conns : \A i \in DOMAIN handed[c] :
       ~StartsWith(Req(c, handed[c][i].id).scope, "@")
         => ~ /\ handed[c][i].tag = "error"
              /\ handed[c][i].type = "KeyError"
              /\ handed[c][i].str = Repr(Req(c, handed[c][i].id).scope)
  /\ \A c1 \in Conns, c2 \in Conns :
       \A i1 \in DOMAIN handed[c1], i2 \in DOMAIN handed[c2] :
         ( /\ ~StartsWith(Req(c1, handed[c1][i1].id).scope, "@")
           /\ ~StartsWith(Req(c2, handed[c2][i2].id).scope, "@")
           /\ Req(c1, handed[c1][i1].id).code = CRetName("__name__", "any")
           /\ Req(c2, handed[c2][i2].id).code = CRetName("__name__", "any") )
         => /\ handed[c1][i1].tag = "result" /\ handed[c2][i2].tag = "result"
            /\ handed[c1][i1].result = handed[c2][i2].result

-----------------------------------------------------------------------------
(* Ordering: C10 *)

\* A request that delays for Delay: a sleep-echo, or a run whose code blocks.
Delays(m) == m.tag = "sleep-echo" \/ (m.tag = "run" /\ m.code.op = "sleep")

\* C10: when a connection's request i delays and its request i+1 is an echo
\* sent immediately after it, the response to i is never written unless the
\* response to i+1 was written before it.
C10_EchoOvertakes ==
  \A c \in Conns : \A i \in 1..(Len(sent[c]) - 1) :
    (Delays(sent[c][i].msg) /\ sent[c][i + 1].msg.tag = "echo" /\ sent[c][i + 1].imm)
      => \A p \in DOMAIN out[c] :
           out[c][p].id = i => \E q \in 1..(p - 1) : out[c][q].id = i + 1

-----------------------------------------------------------------------------
(* stop: C11 *)

\* C11: on a connection whose client has not closed its end, every run or
\* sleep-echo request that serve has read, and whose task is done, has its
\* response written to the connection, a stop read after it notwithstanding.
C11_StopKeepsResponses ==
  \A c \in Conns : \A i \in 1..NRead(c) :
    ( /\ ~eof[c]
      /\ Req(c, i).tag \in {"run", "sleep-echo"}
      /\ \A t \in tasks : ~(t.conn = c /\ t.msg.id = i) )
    => \E p \in DOMAIN out[c] : out[c][p].id = i

-----------------------------------------------------------------------------
(* Union formatter: C12, C13 *)

\* The request returns through ('union', members...).
IsUnionReq(rq) ==
  rq.tag = "run" /\ rq.code.op = "ret_spec" /\ rq.code.spec.k = "tuple"
    /\ rq.code.spec.n = "union"

\* The members of the union of such a request.
Members(rq) == ToFormats(rq.code.spec.args, 1, <<>>).fmt

\* What a member did decides the scan: it is no TypeError and no ValueError.
Decisive(r) == r.exc \notin {"TypeError", "ValueError"}

\* Member k is the first whose outcome decides the scan.
FirstDecisive(fs, k, v) ==
  /\ Decisive(Format(fs[k], v, refid, refs))
  /\ \A i \in 1..(k - 1) : ~Decisive(Format(fs[i], v, refid, refs))

\* This step answers task t with what r is, and leaves the table as r did.
Answers(t, r) ==
  /\ IF r.exc = "" THEN Sends(t.conn, ResultMsg(t.msg.id, r.node))
     ELSE Sends(t.conn, ErrorMsg(t.msg.id, r.exc, r.str))
  /\ refs' = r.refs /\ refid' = r.refid

\* C12: the run of jl.ret(v, ('union', members...)) answers with what the
\* first member did that neither raised TypeError nor ValueError, be it a
\* node or another exception, and the table is as that member left it: no
\* member after it was invoked. When every member raised TypeError or
\* ValueError the answer is the union's own TypeError.
C12_UnionFirstMatch ==
  [][\A t \in tasks : (RunStep(t) /\ IsUnionReq(t.msg)) =>
       /\ \A k \in DOMAIN Members(t.msg) :
            FirstDecisive(Members(t.msg), k, t.msg.code.v)
              => Answers(t, Format(Members(t.msg)[k], t.msg.code.v, refid, refs))
       /\ (\A k \in DOMAIN Members(t.msg) :
             ~Decisive(Format(Members(t.msg)[k], t.msg.code.v, refid, refs)))
            => /\ Sends(t.conn, ErrorMsg(t.msg.id, "TypeError", "cannot format this"))
               /\ refs' = refs /\ refid' = refid]_vars

\* Unions have been answered in each way: by the first member (a handle for
\* 5 from <ref, int>), by a later member after a TypeError, by a member's
\* AttributeError, which left the table alone, and by the union's TypeError.
C12_Witness ==
  \E c \in Conns :
    /\ Len(handed[c]) = 2
    /\ Req(c, 1) = WithId(TUnion(PyInt(5), <<FName("ref"), FName("int")>>), 1)
    /\ IsRefResp(handed[c][1])
    /\ Req(c, 2) = WithId(TUnion(PyStr("abc"), <<FName("rational"), FName("ref")>>), 2)
    /\ handed[c][2].tag = "error" /\ handed[c][2].type = "AttributeError"
    /\ refid = 1

\* C13: the run of jl.ret(v, ('union', members...)) where no member makes a
\* node of v is answered with the union's TypeError 'cannot format this'.
C13_UnionAggregate ==
  \A c \in Conns : \A i \in DOMAIN handed[c] :
    ( /\ IsUnionReq(Req(c, handed[c][i].id))
      /\ \A k \in DOMAIN Members(Req(c, handed[c][i].id)) :
           Format(Members(Req(c, handed[c][i].id))[k], Req(c, handed[c][i].id).code.v,
                  refid, refs).exc # "" )
    => handed[c][i] = ErrorMsg(handed[c][i].id, "TypeError", "cannot format this")

-----------------------------------------------------------------------------
(* Reference formatter: C14 *)

\* The request returns through a formatter that to_format makes a RefFormat of.
IsRefReq(rq) ==
  /\ rq.tag = "run" /\ rq.code.op = "ret_spec"
  /\ ToFormatSpec(rq.code.spec).exc = ""
  /\ ToFormatSpec(rq.code.spec).fmt.cls = "RefFormat"

\* This step answers task t with a Ref node whose handle is the one new handle
\* of the table, bound to the value of the request.
OneNewHandle(t) ==
  /\ Sends(t.conn, ResultMsg(t.msg.id, JNode("ref", Str(refid + 1))))
  /\ Str(refid + 1) \notin DOMAIN refs
  /\ refs' = Bind(refs, Str(refid + 1), t.msg.code.v)
  /\ refid' = refid + 1

\* C14 as stated: however the 'ref' formatter was constructed, the run of
\* jl.ret(v, <it>) binds one new handle to v and answers with its Ref node.
C14_RefNeverFails ==
  [][\A t \in tasks : (RunStep(t) /\ IsRefReq(t.msg)) => OneNewHandle(t)]_vars

\* C14, amended: the same of the 'ref' formatter constructed without a guard,
\* which is every 'ref' and ('ref', members...) whose members construct.
C14_UnguardedRefNeverFails ==
  [][\A t \in tasks :
       (RunStep(t) /\ IsRefReq(t.msg) /\ ToFormatSpec(t.msg.code.spec).fmt.isa = "")
         => OneNewHandle(t)]_vars

\* Handles were made of None by 'ref' and of 'abc' by ('ref', 'int'), whose
\* member would have raised ValueError.
C14_Witness ==
  \E c \in Conns :
    /\ Len(handed[c]) = 2
    /\ Req(c, 1).code = CRetSpec(PyNone, FName("ref"))
    /\ Req(c, 2).code = CRetSpec(PyStr("abc"), FTuple("ref", <<FName("int")>>))
    /\ handed[c][1] = ResultMsg(1, JNode("ref", "1"))
    /\ handed[c][2] = ResultMsg(2, JNode("ref", "2"))
    /\ refs = Bind(Bind(<<>>, "1", PyNone), "2", PyStr("abc"))

-----------------------------------------------------------------------------
(* Integer encoding: C15 *)

\* The wire form the claim gives the integer n.
IntWire(n) == IF -(2^20) < n /\ n < 2^20 THEN JNum(n) ELSE JNode("int", Str(n))

\* C15: the answer to jl.ret(n, 'int') is n itself when |n| < 2^20 and the
\* node {t:'int', v:str(n)} otherwise, and get_local of the answer is n; sent
\* back as a local and returned through 'int', the wire form comes back as it
\* was sent.
C15_IntEncoding ==
  \A c \in Conns : \A i \in DOMAIN handed[c] :
    /\ Req(c, handed[c][i].id).code.op = "ret_lit" =>
         /\ handed[c][i] =
              ResultMsg(handed[c][i].id, IntWire(Req(c, handed[c][i].id).code.v.v))
         /\ GetLocal(handed[c][i].result, refs).exc = ""
         /\ GetLocal(handed[c][i].result, refs).val = Req(c, handed[c][i].id).code.v
    /\ Req(c, handed[c][i].id).code.op = "ret_name" =>
         handed[c][i] =
           ResultMsg(handed[c][i].id, Req(c, handed[c][i].id).locals.items[1][2])

\* Both sides of the boundary have been answered: 2^20 - 1 inline and 2^20 as
\* a node, which get_local reads as 2^20.
C15_Witness ==
  \E c \in Conns :
    /\ Len(handed[c]) = 2
    /\ Req(c, 1).code = CRetLit(PyInt(1048575), "int")
    /\ Req(c, 2).code = CRetLit(PyInt(1048576), "int")
    /\ handed[c][1] = ResultMsg(1, JNum(1048575))
    /\ handed[c][2] = ResultMsg(2, JNode("int", "1048576"))
    /\ GetLocal(handed[c][2].result, refs).val = PyInt(1048576)

-----------------------------------------------------------------------------
(* The 'any' chain: C16 *)

\* C16: every jl.ret(v, 'any') is answered with a node; a boolean with the
\* boolean itself; and with a Ref node only when every member of ANY_FORMAT
\* before the last raises TypeError or ValueError on v.
C16_AnyTotal ==
  \A c \in Conns : \A i \in DOMAIN handed[c] :
    ( /\ Req(c, handed[c][i].id).code.op = "ret_lit"
      /\ Req(c, handed[c][i].id).code.fmt = "any" )
    => /\ handed[c][i].tag = "result"
       /\ Req(c, handed[c][i].id).code.v.ty = "bool"
            => handed[c][i].result = JBool(Req(c, handed[c][i].id).code.v.v)
       /\ IsRefResp(handed[c][i])
            => \A k \in 1..(Len(ANY_FORMAT) - 1) :
                 ~Decisive(Format(ANY_FORMAT[k], Req(c, handed[c][i].id).code.v,
                                  refid, refs))

-----------------------------------------------------------------------------
(* Suspension points: C17 *)

\* C17: the step in which a run task runs is the whole of do_run up to its
\* send and nothing else: no serve reads or moves, no other task starts, ends
\* or moves, every handle the table held when the locals were decoded is still
\* bound to its value when the code has ended, at most the one handle this run
\* allocated is new, and only the scope of the run has changed.
C17_RunIsOneStep ==
  [][\A t \in tasks : RunStep(t) =>
       /\ pc' = pc /\ buf' = buf /\ net' = net /\ cur' = cur
       /\ \A u \in tasks \ {t} :
            \E w \in tasks' : w.conn = u.conn /\ w.msg = u.msg /\ w.st = u.st
       /\ \A w \in tasks' : \E u \in tasks \ {t} : w.conn = u.conn /\ w.msg = u.msg
       /\ \A h \in DOMAIN refs : h \in DOMAIN refs' /\ refs'[h] = refs[h]
       /\ DOMAIN refs' \ DOMAIN refs \subseteq {Str(refid + 1)}
       /\ \A k \in DOMAIN modules :
            k # ScopeKey(t.msg.scope) => (k \in DOMAIN modules' /\ modules'[k] = modules[k])
    ]_vars

\* A run whose locals hold handle 1 has been answered with a result while a
\* delref for handle 1 was waiting in the buffer of its connection, and the
\* handle is still in the table.
C17_Witness ==
  \E c \in Conns : \E i \in DOMAIN handed[c] :
    /\ Req(c, handed[c][i].id) = WithId(TUse, handed[c][i].id)
    /\ handed[c][i].tag = "result"
    /\ buf[c] # <<>> /\ Head(buf[c]) = TDelref("1")
    /\ "1" \in DOMAIN refs

-----------------------------------------------------------------------------
(* Order of effects on the table: C18 *)

\* The handles of the ref nodes in the locals of msg.
HandlesOf(msg) ==
  IF msg.locals = JNull THEN {}
  ELSE {msg.locals.items[i][2].v :
          i \in {k \in DOMAIN msg.locals.items :
                   msg.locals.items[k][2].j = "object" /\ msg.locals.items[k][2].t = "ref"}}

\* C18: when serve reads a delref for a live handle h, every run request read
\* before it on the connection whose locals reference h has decoded its
\* locals: no task of such a request is still to start.
C18_RunDecodesBeforeRelease ==
  [][\A c \in Conns :
       (DelrefStep(c) /\ Head(buf[c]).ref \in DOMAIN refs)
         => ~\E t \in tasks :
               /\ t.conn = c /\ t.msg.tag = "run" /\ t.st = "new"
               /\ Head(buf[c]).ref \in HandlesOf(t.msg)]_vars

-----------------------------------------------------------------------------
(* Failed format attempts: C19 *)

RECURSIVE HandlesIn(_)
RECURSIVE HandlesInAll(_, _)

\* The handles of the Ref nodes of a node, at whatever depth.
HandlesIn(node) ==
  IF node.j # "object" THEN {}
  ELSE IF node.t = "ref" THEN {node.v}
  ELSE IF node.t \in {"tuple", "list"} THEN HandlesInAll(node.v, 1)
  ELSE {}

HandlesInAll(nodes, i) ==
  IF i > Len(nodes) THEN {} ELSE HandlesIn(nodes[i]) \cup HandlesInAll(nodes, i + 1)

\* C19: every handle of the table is in a Ref node of a response: no handle
\* that a failed format attempt allocated is in the table.
C19_NoLeakedHandles ==
  \A h \in DOMAIN refs :
    \E c \in Conns : \E i \in DOMAIN handed[c] :
      handed[c][i].tag = "result" /\ h \in HandlesIn(handed[c][i].result)

-----------------------------------------------------------------------------
(* Response correlation: C20 *)

\* C20: every response written on a connection carries the id of an echo,
\* sleep-echo or run request that has been read on that connection, and no
\* other response written on the connection carries that id; the response to
\* an echo or a sleep-echo is the request itself, the response to a run is a
\* result or an error. Hence no response answers a delref, a stop or a request
\* of another tag.
C20_ResponseCorrelation ==
  \A c \in Conns : \A p \in DOMAIN out[c] :
    /\ out[c][p].id \in 1..NRead(c)
    /\ Req(c, out[c][p].id).tag \in {"echo", "sleep-echo", "run"}
    /\ Req(c, out[c][p].id).tag \in {"echo", "sleep-echo"} => out[c][p] = Req(c, out[c][p].id)
    /\ Req(c, out[c][p].id).tag = "run" => out[c][p].tag \in {"result", "error"}
    /\ \A q \in DOMAIN out[c] : out[c][q].id = out[c][p].id => q = p

\* A connection has read a sleep-echo and then an echo and has written both
\* responses, the echo's first.
C20_Witness ==
  \E c \in Conns :
    /\ Len(out[c]) = 2
    /\ Req(c, 1) = WithId(TSleepEcho, 1) /\ Req(c, 2) = WithId(TEcho, 2)
    /\ out[c] = <<Req(c, 2), Req(c, 1)>>

====
